---- MODULE Spec2Model ----
(***************************************************************************)
(* A model of the pseudo-bitcoin ledger core: class Blockchain of          *)
(* src/src/Blockchain.py (accounts, the two pending pools, the chain and   *)
(* the flat-file store) and the balance primitives of src/src/Wallet.py.   *)
(*                                                                         *)
(* One process works on the store directory at a time.  A process is a     *)
(* Blockchain() instance: it is "fresh" after construction, "running"      *)
(* after initialize() or a completed read_blockchain(), and "failed" after *)
(* a read_blockchain() that raised.  A handler is one action that carries   *)
(* it up to its return or up to the statement that raises; the result the  *)
(* caller sees is recorded in lastOp.  KeyboardInterrupt can end a call    *)
(* between any two of its statements, and between an open() and the        *)
(* assignment of the handle it returned: the instance is "interrupted",    *)
(* the except branch of test_save_blocks calls save_blockchain() and the   *)
(* process is "done".                                                      *)
(*                                                                         *)
(* Files hold what the process has written to them (buffers are flushed    *)
(* when a handle is closed and when the process exits).                    *)
(*                                                                         *)
(* Environment: initialize() and read_blockchain() run on a fresh instance *)
(* over whatever the store holds (every run of test_save_blocks            *)
(* initializes again over the files of the run before), and the other      *)
(* handlers run on a running instance.                                     *)
(***************************************************************************)
EXTENDS Integers, Sequences, FiniteSets, TLC

VARIABLES
    started,            \* the instance's life cycle: "fresh" | "running" | "failed" (a load raised) |
                        \* "reading" (the reads of test_signature) | "interrupted" (KeyboardInterrupt
                        \* in the try block of test_save_blocks) | "done" (its except branch has run)
    blocks,             \* self._blocks
    address_pool,       \* self.address_pool, in insertion order
    transaction_pool,   \* self.transaction_pool
    balance_pool,       \* self.balance_pool
    height,             \* self.height
    count,              \* self.count
    index,              \* self.index
    data_file,          \* self.data_file: [state, idx]
    address_file,       \* self.address_file: "none" | "open" | "closed"
    dir_exists,         \* the store directory exists
    files,              \* which of metadata, address, genesis, transactions exist
    f_metadata,         \* lines of the metadata file
    f_address,          \* lines of the address file
    f_genesis,          \* lines of the genesis file
    f_transactions,     \* lines of the transactions file
    f_data,             \* segment files: index -> lines of data-<index>
    clock,              \* number of blocks sealed so far (time.time() and the nonce make each hash new)
    nkeys,              \* number of key pairs generated so far
    restarts,           \* number of times the process was ended and a new one started
    addr_covered,       \* hashes of the blocks in memory when the address file was last rewritten
                        \* (none once initialize has opened it with 'w+')
    grants,             \* number of direct calls of increment_balance so far
    written,            \* number of block lines save_block_data has written to segment files
                        \* since initialize created data-0
    applied,            \* for each entry of balance_pool: how many fire_transactions of this instance changed balances by it
    persisted,          \* <<what was in memory at the last save_blockchain>>, <<>> once a handler ran after it
    probe,              \* the last call on a Wallet or on a signed text: [op, wallet, data, copy, msg, text, res]
    lastOp              \* the last call and what its caller saw: [op, res]

memVars == <<started, blocks, address_pool, transaction_pool, balance_pool,
             height, count, index, data_file, address_file>>
diskVars == <<dir_exists, files, f_metadata, f_address, f_genesis, f_transactions, f_data>>
ledgerVars == <<memVars, diskVars, clock, nkeys, restarts, addr_covered, written, applied,
               grants, persisted, lastOp>>
vars == <<ledgerVars, probe>>

(***************************************************************************)
(* Bounds of the model and constants of the program.                       *)
(***************************************************************************)
MaxWork == 4            \* blocks sealed + pending intents + restarts + grants, in a run of Spec
MaxChain == 102         \* blocks sealed in a run of SpecChain
MaxChainRestarts == 1   \* restarts in a run of SpecChain
MaxSegBlocks == 1002    \* blocks sealed in a run of SpecSegments
MaxPayload == 2         \* characters of a payload in a run of SpecWallet

bits == 15
subsidy == 50
threshold == 100
InitialBalance == 50
SaveThreshold == 100
ZeroHash == 0
NoSig == 0

Names == {"A", "B"}
\* the amount a caller of increment_balance hands out
Grant == 100
\* the transfers a caller asks for: <<source, dest, amount>>
Transfers == {<<"A", "B", 30>>, <<"A", "B", -10>>, <<"B", "A", 30>>}

NoFile == [state |-> "none", idx |-> 0]

Last(s) == s[Len(s)]

(***************************************************************************)
(* Accounts: Address objects held in the address_pool dict.                *)
(***************************************************************************)
HasName(pool, name) == \E i \in DOMAIN pool : pool[i].name = name

PoolIdx(pool, name) == CHOOSE i \in DOMAIN pool : pool[i].name = name

BalanceOf(pool, name) == pool[PoolIdx(pool, name)].balance

SkOf(pool, name) == pool[PoolIdx(pool, name)].sk

\* an Address: sk and vk are the two halves of key pair number key
Address(name, balance, key) == [name |-> name, balance |-> balance, sk |-> key, vk |-> key]

add_balance(addr, amount) == [addr EXCEPT !.balance = @ + amount]

\* sub_balance that leaves the balance as it is
sub_balance_Keep(addr, amount) == addr

sub_balance(addr, amount) == [addr EXCEPT !.balance = @ - amount]

\* have_balance with the comparison turned around
have_balance_Swapped(pool, name, amount) == amount >= BalanceOf(pool, name)

have_balance(pool, name, amount) == BalanceOf(pool, name) >= amount

increment_balance(pool, name, amount) ==
    [pool EXCEPT ![PoolIdx(pool, name)] = add_balance(@, amount)]

decrement_balance(pool, name, amount) ==
    [pool EXCEPT ![PoolIdx(pool, name)] = sub_balance(@, amount)]

\* move_balance without the credit
move_balance_NoCredit(pool, source, dest, amount) ==
    IF ~HasName(pool, source)
    THEN [pool |-> pool, err |-> "KeyError"]
    ELSE [pool |-> decrement_balance(pool, source, amount), err |-> "ok"]

\* debit, then credit; a name that is not a key of the dict raises KeyError
move_balance(pool, source, dest, amount) ==
    IF ~HasName(pool, source)
    THEN [pool |-> pool, err |-> "KeyError"]
    ELSE LET debited == decrement_balance(pool, source, amount) IN
         IF ~HasName(debited, dest)
         THEN [pool |-> debited, err |-> "KeyError"]
         ELSE [pool |-> increment_balance(debited, dest, amount), err |-> "ok"]

RECURSIVE SumBalances(_)
SumBalances(pool) ==
    IF pool = <<>> THEN 0 ELSE pool[1].balance + SumBalances(Tail(pool))

(***************************************************************************)
(* Transactions.  A pool entry is the text of the transaction followed by  *)
(* '|' and the signature; sig is the id of the key that signed it, NoSig   *)
(* for an entry that carries no signature.                                 *)
(***************************************************************************)
TxData(kind, source, dest, amount) ==
    [kind |-> kind, source |-> source, dest |-> dest, amount |-> amount, sig |-> NoSig]

sign_transaction(pool, source, tx_data) == [tx_data EXCEPT !.sig = SkOf(pool, source)]

Intent(source, dest, amount) == [source |-> source, dest |-> dest, amount |-> amount]

\* verify_transaction(source, entry) on an entry of a pool or of a block: the unpacking of
\* the split raises ValueError for a text without signature, and the signature has to be
\* the one of the key pair of source
verify_entry(pool, source, entry) ==
    IF ~HasName(pool, source) THEN "KeyError"
    ELSE IF entry.sig = NoSig THEN "ValueError"
    ELSE IF entry.sig = pool[PoolIdx(pool, source)].vk THEN "ok"
    ELSE "BadSignatureError"

(***************************************************************************)
(* Blocks.                                                                 *)
(***************************************************************************)
Block(prev_height, transactions, prev_hash, hash) ==
    [height |-> prev_height + 1, transactions |-> transactions,
     prev_hash |-> prev_hash, hash |-> hash]

new_block(prev_height, transactions, prev_hash, now) ==
    Block(prev_height, transactions, prev_hash, now + 1)

new_genesis_block(pool, name, now) ==
    new_block(-1, <<sign_transaction(pool, name, TxData("genesis", name, name, 0))>>,
              ZeroHash, now)

\* add_block: the new block follows the last block of the chain
add_block(chain, transactions, now) ==
    Append(chain, new_block(Last(chain).height, transactions, Last(chain).hash, now))

(***************************************************************************)
(* The store: one directory of flat files.                                 *)
(***************************************************************************)
MetadataLine(nblocks, cnt, idx) ==
    [bits |-> bits, subsidy |-> subsidy, height |-> nblocks, count |-> cnt, index |-> idx]

\* save_metadata rewrites the metadata file with len(_blocks), count and index
save_metadata(nblocks, cnt, idx) == <<MetadataLine(nblocks, cnt, idx)>>

AddressLine(addr) ==
    [name |-> addr.name, balance |-> addr.balance, sk |-> addr.sk, vk |-> addr.vk]

AddressOfLine(line) ==
    [Address(line.name, line.balance, 0) EXCEPT !.sk = line.sk, !.vk = line.vk]

\* save_address_pool_data rewrites the address file, one line per account
save_address_pool_data(pool) == [i \in DOMAIN pool |-> AddressLine(pool[i])]

\* save_transaction_data rewrites the transactions file from balance_pool
save_transaction_data(intents) ==
    [i \in DOMAIN intents |->
        [source |-> intents[i].source, dest |-> intents[i].dest, amount |-> intents[i].amount]]

\* open(data-<i>, 'w+'): the file exists and is empty
SegTruncate(data, i) ==
    [j \in (DOMAIN data) \cup {i} |-> IF j = i THEN <<>> ELSE data[j]]

\* open(data-<i>, 'a+'): the file exists, its lines are kept
SegOpenAppend(data, i) ==
    [j \in (DOMAIN data) \cup {i} |-> IF j \in DOMAIN data THEN data[j] ELSE <<>>]

SegWrite(data, i, line) == [data EXCEPT ![i] = Append(@, line)]

\* save_block_data without the write of the block's line
save_block_data_NoWrite(s, block, nblocks) ==
    LET idx == s.count \div threshold
        cnt == s.count + 1
    IN  [count |-> cnt, index |-> idx, data_file |-> s.data_file, f_data |-> s.f_data,
         f_metadata |-> save_metadata(nblocks, cnt, idx),
         files |-> s.files \cup {"metadata"}, err |-> "ok"]

\* save_block_data that starts a new segment file one block late
save_block_data_LateRotate(s, block, nblocks) ==
    LET late == IF s.count = 0 THEN 0 ELSE s.count - 1
        idx == late \div threshold
        rotate == late # 0 /\ late % threshold = 0
        handle == IF rotate THEN [state |-> "open", idx |-> idx] ELSE s.data_file
        data == IF rotate THEN SegTruncate(s.f_data, idx) ELSE s.f_data
        cnt == s.count + 1
    IN  IF handle.state # "open"
        THEN [count |-> cnt, index |-> idx, data_file |-> handle, f_data |-> data,
              f_metadata |-> s.f_metadata, files |-> s.files, err |-> "ValueError:closed file"]
        ELSE [count |-> cnt, index |-> idx, data_file |-> handle,
              f_data |-> SegWrite(data, handle.idx, block),
              f_metadata |-> save_metadata(nblocks, cnt, idx),
              files |-> s.files \cup {"metadata"}, err |-> "ok"]

\* save_block_data on the store state s = [count, index, data_file, f_data, f_metadata, files]:
\* the write raises ValueError when the handle is closed, after count was incremented
save_block_data(s, block, nblocks) ==
    LET idx == s.count \div threshold
        rotate == s.count # 0 /\ s.count % threshold = 0
        handle == IF rotate THEN [state |-> "open", idx |-> idx] ELSE s.data_file
        data == IF rotate THEN SegTruncate(s.f_data, idx) ELSE s.f_data
        cnt == s.count + 1
    IN  IF handle.state # "open"
        THEN [count |-> cnt, index |-> idx, data_file |-> handle, f_data |-> data,
              f_metadata |-> s.f_metadata, files |-> s.files, err |-> "ValueError:closed file"]
        ELSE [count |-> cnt, index |-> idx, data_file |-> handle,
              f_data |-> SegWrite(data, handle.idx, block),
              f_metadata |-> save_metadata(nblocks, cnt, idx),
              files |-> s.files \cup {"metadata"}, err |-> "ok"]

Min(a, b) == IF a < b THEN a ELSE b

\* save_blocks_data rewrites the segment files from _blocks[1:], SaveThreshold blocks a file
save_blocks_data(chain, data) ==
    LET rest == Tail(chain)
        n == Len(rest)
        lastSeg == IF n = 0 THEN 0 ELSE (n - 1) \div SaveThreshold
        chunk(k) == SubSeq(rest, k * SaveThreshold + 1, Min((k + 1) * SaveThreshold, n))
    IN  [j \in (DOMAIN data) \cup (0..lastSeg) |-> IF j <= lastSeg THEN chunk(j) ELSE data[j]]

\* the decimal digits of n, as in the file name data-<n>
RECURSIVE Digits(_)
Digits(n) == IF n < 10 THEN <<n>> ELSE Append(Digits(n \div 10), n % 10)

\* string order of two digit strings
RECURSIVE StrLess(_, _)
StrLess(a, b) ==
    IF a = <<>> THEN b # <<>>
    ELSE IF b = <<>> THEN FALSE
    ELSE IF Head(a) # Head(b) THEN Head(a) < Head(b)
    ELSE StrLess(Tail(a), Tail(b))

\* sorted(os.listdir(base_dir)) on the segment files: the indices in the string order of their names
RECURSIVE SortedSegs(_)
SortedSegs(S) ==
    IF S = {} THEN <<>>
    ELSE LET first == CHOOSE i \in S : \A j \in S \ {i} : StrLess(Digits(i), Digits(j))
         IN  <<first>> \o SortedSegs(S \ {first})

RECURSIVE ConcatSegs(_, _)
ConcatSegs(data, order) ==
    IF order = <<>> THEN <<>> ELSE data[Head(order)] \o ConcatSegs(data, Tail(order))

\* read_blocks_data: every line of every segment file, file by file in sorted order
read_blocks_data(data) == ConcatSegs(data, SortedSegs(DOMAIN data))

\* read_transaction_data: each line gives an unsigned entry and an intent
ReadTransactionPool(lines) ==
    [i \in DOMAIN lines |-> TxData("tx", lines[i].source, lines[i].dest, lines[i].amount)]

ReadBalancePool(lines) ==
    [i \in DOMAIN lines |-> Intent(lines[i].source, lines[i].dest, lines[i].amount)]

read_address_pool_data(lines) == [i \in DOMAIN lines |-> AddressOfLine(lines[i])]

(***************************************************************************)
(* class Wallet and the signed texts.  A digest is the term of what was    *)
(* hashed (two digests are equal when their inputs are), an encoding is    *)
(* the term of what was encoded and decoding takes it off again.  A text   *)
(* is a sequence of characters.                                            *)
(***************************************************************************)
KeyIds == {1, 2}
Balances == {0, 50}
Chars == {"a", "b", "|"}

sha256(data) == [digest |-> "sha256", of |-> data]
ripemd160(data) == [digest |-> "ripemd160", of |-> data]
b64encode(bytes) == [encoding |-> "base64", of |-> bytes]
b64decode(text) == text.of
b58encode(bytes) == [encoding |-> "base58", of |-> bytes]

\* what the update method of a hash object returns
None == [none |-> TRUE]
update(h, data) == None

\* Wallet._create_address: base58 of key_hash + checksum
create_address(vk) ==
    LET key_hash == ripemd160(sha256(b64encode(vk)))
        checksum == sha256(sha256(key_hash))
    IN  b58encode(<<key_hash, checksum>>)

\* Wallet(name, balance) with the key pair that SigningKey.generate drew
Wallet(name, balance, key) ==
    [name |-> name, balance |-> balance, sk |-> key, vk |-> key,
     address |-> create_address(key)]

\* Wallet.verify_address: key_hash is what h.update returned, and m.update(key_hash)
\* raises TypeError for None
verify_address(wallet) ==
    LET key_hash == update("ripemd160", sha256(b64encode(wallet.vk)))
        checksum == sha256(sha256(key_hash))
        addr == <<key_hash, checksum>>
    IN  IF key_hash = None THEN "TypeError"
        ELSE IF addr = wallet.address THEN "True" ELSE "False"

\* Wallet.serialize: the JSON text of the dict
serialize(wallet) ==
    [json |-> [name |-> wallet.name, balance |-> wallet.balance,
               sk |-> b64encode(wallet.sk), vk |-> b64encode(wallet.vk),
               address |-> wallet.address]]

\* Wallet.deserialize that keeps the address of the wallet it constructed
deserialize_OwnAddress(raw_data, key) ==
    LET data == raw_data.json
        wallet == Wallet(data.name, data.balance, key)
    IN  [wallet EXCEPT !.sk = b64decode(data.sk), !.vk = b64decode(data.vk)]

\* Wallet.deserialize: a new Wallet (with the key pair its constructor drew), then sk, vk
\* and address are set from the text
deserialize(raw_data, key) ==
    LET data == raw_data.json
        wallet == Wallet(data.name, data.balance, key)
    IN  [wallet EXCEPT !.sk = b64decode(data.sk), !.vk = b64decode(data.vk),
                       !.address = data.address]

\* the texts of at most n characters
RECURSIVE Texts(_)
Texts(n) ==
    IF n = 0 THEN {<<>>}
    ELSE Texts(n - 1) \cup {Append(t, c) : t \in {u \in Texts(n - 1) : Len(u) = n - 1}, c \in Chars}

\* base58.b58encode(sk.sign(data)).decode(): a text over the base58 alphabet, which has
\* no '|'; it is the text of the key and of the signed data.  Two payloads never have the
\* same signature text: '|' is written "Zb" and 'Z' is written "ZZ"
KeyChar(key) == IF key = 1 THEN "1" ELSE "2"
Base58Char(c) == IF c = "|" THEN <<"Z", "b">> ELSE IF c = "Z" THEN <<"Z", "Z">> ELSE <<c>>
RECURSIVE Base58Text(_)
Base58Text(data) ==
    IF data = <<>> THEN <<>> ELSE Base58Char(Head(data)) \o Base58Text(Tail(data))
sign(sk, data) == <<KeyChar(sk)>> \o Base58Text(data)

\* sign_transaction on the text: tx_data + '|' + signature
sign_text(sk, tx_data) == tx_data \o <<"|">> \o sign(sk, tx_data)

\* str.split('|')
RECURSIVE split(_, _)
split(text, sep) ==
    IF \A i \in DOMAIN text : text[i] # sep THEN <<text>>
    ELSE LET i == CHOOSE k \in DOMAIN text :
                     text[k] = sep /\ \A j \in 1..(k - 1) : text[j] # sep
         IN  <<SubSeq(text, 1, i - 1)>> \o split(SubSeq(text, i + 1, Len(text)), sep)

\* verify_transaction on the text: the unpacking of the split raises ValueError unless
\* there are two parts, and vk.verify rejects a signature that is not the one of tx_data
verify_transaction(vk, text) ==
    LET parts == split(text, "|") IN
    IF Len(parts) # 2 THEN "ValueError"
    ELSE IF parts[2] = sign(vk, parts[1]) THEN "ok" ELSE "BadSignatureError"

NoProbe == [op |-> "none", wallet |-> <<>>, data |-> <<>>, copy |-> <<>>,
            msg |-> <<>>, text |-> <<>>, res |-> "ok"]

(***************************************************************************)
(* The handlers.                                                           *)
(***************************************************************************)
Result(op, res) == [op |-> op, res |-> res]

\* Blockchain(): the state after construction, over an empty store
Init ==
    /\ started = "fresh"
    /\ blocks = <<>>
    /\ address_pool = <<>>
    /\ transaction_pool = <<>>
    /\ balance_pool = <<>>
    /\ height = 0
    /\ count = 0
    /\ index = 0
    /\ data_file = NoFile
    /\ address_file = "none"
    /\ dir_exists \in BOOLEAN
    /\ files = {}
    /\ f_metadata = <<>>
    /\ f_address = <<>>
    /\ f_genesis = <<>>
    /\ f_transactions = <<>>
    /\ f_data = <<>>
    /\ clock = 0
    /\ nkeys = 0
    /\ restarts = 0
    /\ addr_covered = {}
    /\ written = 0
    /\ grants = 0
    /\ applied = <<>>
    /\ persisted = <<>>
    /\ probe = NoProbe
    /\ lastOp = Result("Blockchain", "ok")

\* create_user on (pool, handle, address file): the account joins the dict before
\* its line is written, and the write raises ValueError on a closed handle.  For a name
\* that is already a key the call prints a message and returns normally: res "exists"
create_user(pool, handle, lines, name, key) ==
    IF HasName(pool, name)
    THEN [pool |-> pool, lines |-> lines, res |-> "exists"]
    ELSE LET addr == Address(name, 0, key) IN
         IF handle # "open"
         THEN [pool |-> Append(pool, addr), lines |-> lines, res |-> "ValueError:closed file"]
         ELSE [pool |-> Append(pool, addr), lines |-> Append(lines, AddressLine(addr)),
               res |-> "ok"]

\* create_user(name)
CreateUser(name) ==
    /\ started = "running"
    /\ LET user == create_user(address_pool, address_file, f_address, name, nkeys + 1) IN
       /\ address_pool' = user.pool
       /\ f_address' = user.lines
       /\ nkeys' = IF user.res = "exists" THEN nkeys ELSE nkeys + 1
       /\ persisted' = <<>>
       /\ lastOp' = Result("create_user", user.res)
    /\ UNCHANGED <<started, blocks, transaction_pool, balance_pool, height, count, index,
                   data_file, address_file, dir_exists, files, f_metadata, f_genesis,
                   f_transactions, f_data, clock, restarts, addr_covered, written, applied, grants, probe>>

\* increment_balance(name, amount), called on the instance as test_save_blocks does: the
\* balance in memory changes, no file is written; a name that is not a key raises KeyError
IncrementBalance(name, amount) ==
    /\ started = "running"
    /\ address_pool' = IF HasName(address_pool, name)
                       THEN increment_balance(address_pool, name, amount)
                       ELSE address_pool
    /\ persisted' = <<>>
    /\ grants' = grants + 1
    /\ lastOp' = Result("increment_balance",
                        IF HasName(address_pool, name) THEN "ok" ELSE "KeyError")
    /\ UNCHANGED <<started, blocks, transaction_pool, balance_pool, height, count, index,
                   data_file, address_file, diskVars, clock, nkeys, restarts, addr_covered,
                   written, applied, probe>>

\* the amounts source has pending in the pool
RECURSIVE PendingFrom(_, _)
PendingFrom(intents, source) ==
    IF intents = <<>> THEN 0
    ELSE (IF Head(intents).source = source THEN Head(intents).amount ELSE 0)
         + PendingFrom(Tail(intents), source)

\* add_transaction that sets the amounts source has pending against its balance
add_transaction_CountPending(pool, txs, intents, source, dest, amount) ==
    IF ~HasName(pool, source)
    THEN [txs |-> txs, intents |-> intents, res |-> "KeyError"]
    ELSE IF ~have_balance(pool, source, amount + PendingFrom(intents, source))
    THEN [txs |-> txs, intents |-> intents, res |-> "ValueError:balance"]
    ELSE [txs |-> Append(txs, sign_transaction(pool, source, TxData("tx", source, dest, amount))),
          intents |-> Append(intents, Intent(source, dest, amount)),
          res |-> "ok"]

\* add_transaction(source, dest, amount)
add_transaction(pool, txs, intents, source, dest, amount) ==
    IF ~HasName(pool, source)
    THEN [txs |-> txs, intents |-> intents, res |-> "KeyError"]
    ELSE IF ~have_balance(pool, source, amount)
    THEN [txs |-> txs, intents |-> intents, res |-> "ValueError:balance"]
    ELSE [txs |-> Append(txs, sign_transaction(pool, source, TxData("tx", source, dest, amount))),
          intents |-> Append(intents, Intent(source, dest, amount)),
          res |-> "ok"]

AddTransaction(source, dest, amount) ==
    /\ started = "running"
    /\ LET r == add_transaction(address_pool, transaction_pool, balance_pool,
                                source, dest, amount) IN
       /\ transaction_pool' = r.txs
       /\ balance_pool' = r.intents
       /\ persisted' = <<>>
       /\ applied' = IF r.res = "ok" THEN Append(applied, 0) ELSE applied
       /\ lastOp' = Result("add_transaction", r.res)
    /\ UNCHANGED <<started, blocks, address_pool, height, count, index, data_file,
                   address_file, diskVars, clock, nkeys, restarts, addr_covered, written, grants, probe>>

Store == [count |-> count, index |-> index, data_file |-> data_file, f_data |-> f_data,
          f_metadata |-> f_metadata, files |-> files]

Hashes(chain) == {chain[i].hash : i \in DOMAIN chain}

\* new_coinbase_tx_account: the reward entry is appended to the list it is handed (the
\* pool itself), the block is sealed and appended, the miner is credited, the block is saved
new_coinbase_tx_account(pool, txs, chain, store, name, now) ==
    IF ~HasName(pool, name)
    THEN [txs |-> txs, chain |-> chain, pool |-> pool, store |-> store @@ [err |-> "KeyError"],
          err |-> "KeyError"]
    ELSE LET sign_data == sign_transaction(pool, name, TxData("reward", name, name, subsidy))
             transactions == Append(txs, sign_data)
             chain1 == add_block(chain, transactions, now)
             saved == save_block_data(store, Last(chain1), Len(chain1))
         IN  [txs |-> transactions, chain |-> chain1,
              pool |-> increment_balance(pool, name, subsidy),
              store |-> saved, err |-> saved.err]

\* the loop of fire_transactions over balance_pool, from intent i on; moves lists the
\* executions of move_balance: the pool before, the pool after, and the intent
RECURSIVE FireLoop(_, _, _, _)
FireLoop(pool, intents, i, moves) ==
    IF i > Len(intents)
    THEN [pool |-> pool, err |-> "ok", moves |-> moves]
    ELSE LET t == intents[i] IN
         IF ~HasName(pool, t.source)
         THEN [pool |-> pool, err |-> "KeyError", moves |-> moves]
         ELSE IF ~have_balance(pool, t.source, t.amount)
         THEN [pool |-> pool, err |-> "ValueError:balance", moves |-> moves]
         ELSE LET m == move_balance(pool, t.source, t.dest, t.amount)
                  log == Append(moves, [before |-> pool, after |-> m.pool, intent |-> t])
              IN  IF m.err # "ok"
                  THEN [pool |-> m.pool, err |-> m.err, moves |-> log]
                  ELSE FireLoop(m.pool, intents, i + 1, log)

\* fire_transactions that clears transaction_pool alone when it completes
fire_transactions_KeepIntents(name) ==
    LET cb == new_coinbase_tx_account(address_pool, transaction_pool, blocks, Store,
                                      name, clock)
        loop == FireLoop(cb.pool, balance_pool, 1, <<>>)
    IN  IF cb.err # "ok"
        THEN [cb EXCEPT !.err = cb.err] @@
             [intents |-> balance_pool, handle |-> address_file, lines |-> f_address,
              covered |-> addr_covered, moves |-> <<>>]
        ELSE IF loop.err # "ok"
        THEN [txs |-> cb.txs, chain |-> cb.chain, pool |-> loop.pool, store |-> cb.store,
              err |-> loop.err, intents |-> balance_pool, handle |-> address_file,
              lines |-> f_address, covered |-> addr_covered, moves |-> loop.moves]
        ELSE [txs |-> <<>>, chain |-> cb.chain, pool |-> loop.pool,
              store |-> [cb.store EXCEPT !.files = @ \cup {"address"}],
              err |-> "ok", intents |-> balance_pool, handle |-> "closed",
              lines |-> save_address_pool_data(loop.pool),
              covered |-> Hashes(cb.chain), moves |-> loop.moves]

\* fire_transactions(name): what the call leaves behind and what its caller sees
fire_transactions(name) ==
    LET cb == new_coinbase_tx_account(address_pool, transaction_pool, blocks, Store,
                                      name, clock)
        loop == FireLoop(cb.pool, balance_pool, 1, <<>>)
    IN  IF cb.err # "ok"
        THEN [cb EXCEPT !.err = cb.err] @@
             [intents |-> balance_pool, handle |-> address_file, lines |-> f_address,
              covered |-> addr_covered, moves |-> <<>>]
        ELSE IF loop.err # "ok"
        THEN [txs |-> cb.txs, chain |-> cb.chain, pool |-> loop.pool, store |-> cb.store,
              err |-> loop.err, intents |-> balance_pool, handle |-> address_file,
              lines |-> f_address, covered |-> addr_covered, moves |-> loop.moves]
        ELSE [txs |-> <<>>, chain |-> cb.chain, pool |-> loop.pool,
              store |-> [cb.store EXCEPT !.files = @ \cup {"address"}],
              err |-> "ok", intents |-> <<>>, handle |-> "closed",
              lines |-> save_address_pool_data(loop.pool),
              covered |-> Hashes(cb.chain), moves |-> loop.moves]

FireTransactions(name) ==
    /\ started = "running"
    /\ LET r == fire_transactions(name) IN
       /\ transaction_pool' = r.txs
       /\ balance_pool' = r.intents
       /\ blocks' = r.chain
       /\ address_pool' = r.pool
       /\ count' = r.store.count
       /\ index' = r.store.index
       /\ data_file' = r.store.data_file
       /\ f_data' = r.store.f_data
       /\ f_metadata' = r.store.f_metadata
       /\ files' = r.store.files
       /\ address_file' = r.handle
       /\ f_address' = r.lines
       /\ addr_covered' = r.covered
       /\ written' = IF r.store.err = "ok" THEN written + 1 ELSE written
       /\ applied' = [i \in DOMAIN r.intents |->
                         IF i <= Len(r.moves) /\ r.moves[i].after # r.moves[i].before
                         THEN applied[i] + 1 ELSE applied[i]]
       /\ clock' = Len(r.chain) - Len(blocks) + clock
       /\ persisted' = <<>>
       /\ lastOp' = Result("fire_transactions", r.err)
    /\ UNCHANGED <<started, height, dir_exists, f_genesis, f_transactions, nkeys, restarts,
                   grants, probe>>

(***************************************************************************)
(* The statements of the handlers.  A handler works on the state m of the  *)
(* instance and of the store.  Its steps are the sequence of the states it *)
(* goes through: m first, then the state after each statement that changes *)
(* something, up to its return or to the statement that raises (err names  *)
(* the exception).  self.f = open(...) is two states: the file is created  *)
(* or emptied by open(), then the handle is stored.  KeyboardInterrupt can *)
(* end a call in any state of its steps but the last.                      *)
(***************************************************************************)
Current ==
    [blocks |-> blocks, address_pool |-> address_pool, transaction_pool |-> transaction_pool,
     balance_pool |-> balance_pool, height |-> height, count |-> count, index |-> index,
     data_file |-> data_file, address_file |-> address_file, dir_exists |-> dir_exists,
     files |-> files, f_metadata |-> f_metadata, f_address |-> f_address,
     f_genesis |-> f_genesis, f_transactions |-> f_transactions, f_data |-> f_data,
     clock |-> clock, nkeys |-> nkeys, addr_covered |-> addr_covered, written |-> written,
     applied |-> applied, err |-> "ok"]

\* the instance and the store are left in state m
Becomes(m) ==
    /\ blocks' = m.blocks
    /\ address_pool' = m.address_pool
    /\ transaction_pool' = m.transaction_pool
    /\ balance_pool' = m.balance_pool
    /\ height' = m.height
    /\ count' = m.count
    /\ index' = m.index
    /\ data_file' = m.data_file
    /\ address_file' = m.address_file
    /\ dir_exists' = m.dir_exists
    /\ files' = m.files
    /\ f_metadata' = m.f_metadata
    /\ f_address' = m.f_address
    /\ f_genesis' = m.f_genesis
    /\ f_transactions' = m.f_transactions
    /\ f_data' = m.f_data
    /\ clock' = m.clock
    /\ nkeys' = m.nkeys
    /\ addr_covered' = m.addr_covered
    /\ written' = m.written
    /\ applied' = m.applied

Raise(m, exception) == [m EXCEPT !.err = exception]

\* one statement: it takes m to m1
Step(m, m1) == IF m1 = m THEN <<m>> ELSE <<m, m1>>

\* the statements of more (they start in the last state of steps) follow those of steps,
\* unless one of these raised
Then(steps, more) == IF Last(steps).err = "ok" THEN steps \o Tail(more) ELSE steps

\* save_metadata (537-561): the directory is made when it is missing, the file is opened
\* with 'w+' and the line is written
save_metadata_steps(m) ==
    LET made == [m EXCEPT !.dir_exists = TRUE]
        opened == [made EXCEPT !.files = @ \cup {"metadata"}, !.f_metadata = <<>>]
        wrote == [opened EXCEPT
                     !.f_metadata = save_metadata(Len(m.blocks), m.count, m.index)]
    IN  Step(m, made) \o <<opened, wrote>>

\* save_address_data (563-580): one line is written to the open address handle
save_address_data_steps(m, addr) ==
    <<m, IF m.address_file = "none" THEN Raise(m, "AttributeError")
         ELSE IF m.address_file = "closed" THEN Raise(m, "ValueError:closed file")
         ELSE [m EXCEPT !.f_address = Append(@, AddressLine(addr))]>>

\* create_user (229-247): the account joins the dict, then its line is written; for a
\* name that is a key already the call only prints
create_user_steps(m, name) ==
    IF HasName(m.address_pool, name) THEN <<m>>
    ELSE LET addr == Address(name, 0, m.nkeys + 1)
             added == [m EXCEPT !.address_pool = Append(@, addr), !.nkeys = @ + 1]
         IN  <<m>> \o save_address_data_steps(added, addr)

\* increment_balance (476-485)
increment_balance_steps(m, name, amount) ==
    <<m, IF HasName(m.address_pool, name)
         THEN [m EXCEPT !.address_pool = increment_balance(@, name, amount)]
         ELSE Raise(m, "KeyError")>>

\* save_block_data (635-659): index, a new segment file when count is a multiple of
\* threshold (the handle is closed, open() creates data-<index>, the new handle is stored),
\* count, the line of the block, save_metadata
save_block_data_steps(m, block) ==
    LET idx == m.count \div threshold
        indexed == [m EXCEPT !.index = idx]
        rotate == m.count # 0 /\ m.count % threshold = 0
        closed == [indexed EXCEPT !.data_file.state = "closed"]
        created == [closed EXCEPT !.f_data = SegTruncate(@, idx)]
        opened == [created EXCEPT !.data_file = [state |-> "open", idx |-> idx]]
        rotated == IF ~rotate THEN <<indexed>>
                   ELSE IF indexed.data_file.state = "none"
                   THEN <<indexed, Raise(indexed, "AttributeError")>>
                   ELSE Step(indexed, closed) \o <<created, opened>>
        counted(s) == <<s, [s EXCEPT !.count = @ + 1]>>
        wrote(s) ==
            <<s, IF s.data_file.state = "none" THEN Raise(s, "AttributeError")
                 ELSE IF s.data_file.state = "closed" THEN Raise(s, "ValueError:closed file")
                 ELSE [s EXCEPT !.f_data = SegWrite(@, s.data_file.idx, block),
                                !.written = @ + 1]>>
        s1 == Step(m, indexed) \o Tail(rotated)
        s2 == Then(s1, counted(Last(s1)))
        s3 == Then(s2, wrote(Last(s2)))
    IN  Then(s3, save_metadata_steps(Last(s3)))

\* save_genesis_data (620-633): the file is opened with 'w+', then _blocks[0] is written
save_genesis_data_steps(m) ==
    LET opened == [m EXCEPT !.files = @ \cup {"genesis"}, !.f_genesis = <<>>]
    IN  <<m, opened, IF m.blocks = <<>> THEN Raise(opened, "IndexError")
                     ELSE [opened EXCEPT !.f_genesis = <<m.blocks[1]>>]>>

\* save_address_pool_data (582-602): the handle is closed, the file is opened with 'w+'
\* and the accounts are written line by line
save_address_pool_data_steps(m) ==
    IF m.address_file = "none" THEN <<m, Raise(m, "AttributeError")>>
    ELSE LET n == Len(m.address_pool)
             closed == [m EXCEPT !.address_file = "closed"]
             wrote(k) ==
                 [closed EXCEPT
                     !.files = @ \cup {"address"},
                     !.f_address = save_address_pool_data(SubSeq(m.address_pool, 1, k)),
                     !.addr_covered = IF k = n THEN Hashes(m.blocks) ELSE @]
         IN  Step(m, closed) \o <<wrote(0)>> \o [k \in 1..n |-> wrote(k)]

\* save_blocks_data (661-694): the handle is closed, data-0 is opened with 'w+' and the
\* blocks after the first are written line by line; every SaveThreshold lines the next
\* file is opened with 'w+'
save_blocks_loop_steps(m) ==
    LET n == IF Len(m.blocks) < 2 THEN 0
             ELSE (Len(m.blocks) - 1) + ((Len(m.blocks) - 2) \div SaveThreshold)
        \* the j-th state of the loop: SaveThreshold lines, then one state for each
        \* file opened and SaveThreshold for its lines
        at(j) ==
            LET q == j \div (SaveThreshold + 1)
                r == j % (SaveThreshold + 1)
            IN  IF r = 0
                THEN [m EXCEPT !.f_data =
                        SegTruncate(save_blocks_data(SubSeq(m.blocks, 1, q * SaveThreshold + 1),
                                                     m.f_data), q)]
                ELSE [m EXCEPT !.f_data =
                        save_blocks_data(SubSeq(m.blocks, 1, q * SaveThreshold + r + 1),
                                         m.f_data)]
    IN  [j \in 1..n |-> at(j)]

save_blocks_data_steps(m) ==
    IF m.data_file.state = "none" THEN <<m, Raise(m, "AttributeError")>>
    ELSE LET closed == [m EXCEPT !.data_file.state = "closed"]
         IN  Step(m, closed) \o <<[closed EXCEPT !.f_data = SegTruncate(@, 0)]>>
                \o save_blocks_loop_steps(closed)

\* save_transaction_data (604-618): the file is opened with 'w+' and the intents are
\* written line by line
save_transaction_data_steps(m) ==
    LET wrote(k) ==
            [m EXCEPT !.files = @ \cup {"transactions"},
                      !.f_transactions = save_transaction_data(SubSeq(m.balance_pool, 1, k))]
    IN  <<m, wrote(0)>> \o [k \in 1..Len(m.balance_pool) |-> wrote(k)]

\* save_blockchain (513-535)
save_blockchain_steps(m) ==
    LET s1 == save_metadata_steps(m)
        s2 == Then(s1, save_address_pool_data_steps(Last(s1)))
        s3 == Then(s2, save_genesis_data_steps(Last(s2)))
        s4 == Then(s3, save_blocks_data_steps(Last(s3)))
    IN  Then(s4, save_transaction_data_steps(Last(s4)))

\* initialize (203-227): open() raises when the directory is missing; the address file
\* and data-0 are opened with 'w+' (213-214) whatever they hold, each handle stored once
\* its open() has returned, then the first account, its balance, the genesis block,
\* save_block_data, save_metadata, save_genesis_data
initialize_steps(m, name) ==
    IF ~m.dir_exists THEN <<m, Raise(m, "FileNotFoundError")>>
    ELSE LET address_opened == [m EXCEPT !.files = @ \cup {"address"}, !.f_address = <<>>,
                                         !.addr_covered = {}]
             address == [address_opened EXCEPT !.address_file = "open"]
             data_opened == [address EXCEPT !.f_data = SegTruncate(@, 0), !.written = 0]
             data == [data_opened EXCEPT !.data_file = [state |-> "open", idx |-> 0]]
             user(s) == create_user_steps(s, name)
             funded(s) == increment_balance_steps(s, name, InitialBalance)
             genesis(s) ==
                 <<s, [s EXCEPT
                         !.blocks = Append(@, new_genesis_block(s.address_pool, name, s.clock)),
                         !.clock = @ + 1]>>
             block(s) == save_block_data_steps(s, Last(s.blocks))
             s1 == Then(<<m, address_opened, address, data_opened, data>>, user(data))
             s2 == Then(s1, funded(Last(s1)))
             s3 == Then(s2, genesis(Last(s2)))
             s4 == Then(s3, block(Last(s3)))
             s5 == Then(s4, save_metadata_steps(Last(s4)))
         IN  Then(s5, save_genesis_data_steps(Last(s5)))

\* add_transaction (390-416): the balance check, then the two appends
add_transaction_steps(m, source, dest, amount) ==
    IF ~HasName(m.address_pool, source) THEN <<m, Raise(m, "KeyError")>>
    ELSE IF ~have_balance(m.address_pool, source, amount)
    THEN <<m, Raise(m, "ValueError:balance")>>
    ELSE LET sign_data == sign_transaction(m.address_pool, source,
                                           TxData("tx", source, dest, amount))
             signed == [m EXCEPT !.transaction_pool = Append(@, sign_data)]
         IN  <<m, signed,
               [signed EXCEPT !.balance_pool = Append(@, Intent(source, dest, amount)),
                              !.applied = Append(@, 0)]>>

\* new_coinbase_tx_account (339-362) on the pool itself: the reward entry, the block, the
\* credit of the miner, save_block_data
new_coinbase_tx_account_steps(m, name) ==
    IF ~HasName(m.address_pool, name) THEN <<m, Raise(m, "KeyError")>>
    ELSE LET sign_data == sign_transaction(m.address_pool, name,
                                           TxData("reward", name, name, subsidy))
             reward == [m EXCEPT !.transaction_pool = Append(@, sign_data)]
             sealed == [reward EXCEPT
                           !.blocks = add_block(@, reward.transaction_pool, m.clock),
                           !.clock = @ + 1]
             credited == [sealed EXCEPT
                             !.address_pool = increment_balance(@, name, subsidy)]
         IN  <<m, reward, sealed>> \o save_block_data_steps(credited, Last(credited.blocks))

\* the loop of fire_transactions (377-381) from intent i on: the balance check, then the
\* debit (510) and the credit (511) of move_balance
RECURSIVE fire_loop_steps(_, _)
fire_loop_steps(m, i) ==
    IF i > Len(m.balance_pool) THEN <<m>>
    ELSE LET t == m.balance_pool[i]
             pool == m.address_pool
             debit == decrement_balance(pool, t.source, t.amount)
             credit == increment_balance(debit, t.dest, t.amount)
             changed(p) == IF p # pool THEN 1 ELSE 0
             debited == [m EXCEPT !.address_pool = debit,
                                  !.applied[i] = @ + changed(debit)]
             credited == [m EXCEPT !.address_pool = credit,
                                   !.applied[i] = @ + changed(credit)]
         IN  IF ~HasName(pool, t.source) THEN <<m, Raise(m, "KeyError")>>
             ELSE IF ~have_balance(pool, t.source, t.amount)
             THEN <<m, Raise(m, "ValueError:balance")>>
             ELSE IF ~HasName(debit, t.dest) THEN <<m, debited, Raise(debited, "KeyError")>>
             ELSE <<m, debited>> \o fire_loop_steps(credited, i + 1)

\* fire_transactions (364-388)
fire_transactions_steps(m, name) ==
    LET loop(s) == fire_loop_steps(s, 1)
        cleared(s) ==
            <<s, [s EXCEPT !.transaction_pool = <<>>],
                 [s EXCEPT !.transaction_pool = <<>>, !.balance_pool = <<>>,
                           !.applied = <<>>]>>
        s1 == new_coinbase_tx_account_steps(m, name)
        s2 == Then(s1, loop(Last(s1)))
        s3 == Then(s2, save_address_pool_data_steps(Last(s2)))
    IN  Then(s3, cleared(Last(s3)))

\* read_metadata (712-737): it returns at once when the directory is missing; json.loads
\* raises JSONDecodeError on the text of an empty file
read_metadata_steps(m) ==
    IF ~m.dir_exists THEN <<m>>
    ELSE IF "metadata" \notin m.files THEN <<m, Raise(m, "FileNotFoundError")>>
    ELSE IF m.f_metadata = <<>> THEN <<m, Raise(m, "JSONDecodeError")>>
    ELSE LET d == m.f_metadata[1]
             h == [m EXCEPT !.height = d.height]
             c == [h EXCEPT !.count = d.count]
         IN  <<m, h, c, [c EXCEPT !.index = d.index]>>

\* read_address_pool_data (739-766): the accounts of the file join the dict line by line
read_address_pool_data_steps(m) ==
    IF "address" \notin m.files THEN <<m, Raise(m, "FileNotFoundError")>>
    ELSE <<m>> \o [k \in 1..Len(m.f_address) |->
                      [m EXCEPT !.address_pool =
                                   @ \o read_address_pool_data(SubSeq(m.f_address, 1, k))]]

\* read_transaction_data (768-796): each line is appended to transaction_pool as unsigned
\* text, then to balance_pool; at the end the file is opened with 'w+'
read_transaction_data_steps(m) ==
    IF "transactions" \notin m.files THEN <<m, Raise(m, "FileNotFoundError")>>
    ELSE LET n == Len(m.f_transactions)
             read(texts, intents) ==
                 [m EXCEPT
                     !.transaction_pool =
                         @ \o ReadTransactionPool(SubSeq(m.f_transactions, 1, texts)),
                     !.balance_pool = @ \o ReadBalancePool(SubSeq(m.f_transactions, 1, intents)),
                     !.applied = @ \o [i \in 1..intents |-> 0]]
         IN  <<m>> \o [j \in 1..(2 * n) |-> read((j + 1) \div 2, j \div 2)]
                \o <<[read(n, n) EXCEPT !.f_transactions = <<>>]>>

\* read_genesis_data (798-812): json.loads in Block.deserialize raises JSONDecodeError on
\* the text of an empty file
read_genesis_data_steps(m) ==
    IF "genesis" \notin m.files THEN <<m, Raise(m, "FileNotFoundError")>>
    ELSE IF m.f_genesis = <<>> THEN <<m, Raise(m, "JSONDecodeError")>>
    ELSE <<m, [m EXCEPT !.blocks = Append(@, m.f_genesis[1])]>>

\* read_blocks_data (814-844): the blocks of the segment files join the chain line by line
read_blocks_data_steps(m) ==
    LET lines == read_blocks_data(m.f_data)
    IN  <<m>> \o [k \in 1..Len(lines) |-> [m EXCEPT !.blocks = @ \o SubSeq(lines, 1, k)]]

\* read_blockchain (696-710): the four reads, the two handles opened with 'a+' (708-709:
\* open() creates data-<index> when it is missing, then the handle is stored),
\* read_blocks_data
read_blockchain_steps(m) ==
    LET handles(s) ==
            LET address == [s EXCEPT !.address_file = "open"]
                data_opened == [address EXCEPT !.f_data = SegOpenAppend(@, s.index)]
            IN  <<s, address>> \o Tail(Step(address, data_opened))
                   \o <<[data_opened EXCEPT !.data_file = [state |-> "open", idx |-> s.index]]>>
        s1 == read_metadata_steps(m)
        s2 == Then(s1, read_address_pool_data_steps(Last(s1)))
        s3 == Then(s2, read_transaction_data_steps(Last(s2)))
        s4 == Then(s3, read_genesis_data_steps(Last(s3)))
        s5 == Then(s4, handles(Last(s4)))
    IN  Then(s5, read_blocks_data_steps(Last(s5)))

\* the states of steps in which KeyboardInterrupt can end the call after a statement of it
\* has changed something
Cuts(steps) == 2..(Len(steps) - 1)

\* initialize(name) on a fresh instance, over whatever the store holds
Initialize(name) ==
    /\ started = "fresh"
    /\ LET m == Last(initialize_steps(Current, name)) IN
       /\ Becomes(m)
       /\ started' = IF m.err = "ok" THEN "running" ELSE "fresh"
       /\ lastOp' = Result("initialize", m.err)
    /\ persisted' = <<>>
    /\ UNCHANGED <<restarts, grants, probe>>

\* KeyboardInterrupt in the try block of test_save_blocks while no call is running: before
\* initialize has opened a file, or between two calls
Interrupt ==
    /\ started \in {"fresh", "running"}
    /\ started' = "interrupted"
    /\ persisted' = <<>>
    /\ lastOp' = Result("test_save_blocks", "KeyboardInterrupt")
    /\ UNCHANGED <<blocks, address_pool, transaction_pool, balance_pool, height, count, index,
                   data_file, address_file, diskVars, clock, nkeys, restarts, addr_covered,
                   written, applied, grants, probe>>

\* a call of the try block of test_save_blocks that KeyboardInterrupt ends in one of the
\* states of its steps
Interrupted(op, steps) ==
    /\ \E cut \in Cuts(steps) : Becomes(steps[cut])
    /\ started' = "interrupted"
    /\ persisted' = <<>>
    /\ lastOp' = Result(op, "KeyboardInterrupt")
    /\ UNCHANGED <<restarts, grants, probe>>

InitializeInterrupted(name) ==
    /\ started = "fresh"
    /\ Interrupted("initialize", initialize_steps(Current, name))

CreateUserInterrupted(name) ==
    /\ started = "running"
    /\ Interrupted("create_user", create_user_steps(Current, name))

AddTransactionInterrupted(source, dest, amount) ==
    /\ started = "running"
    /\ Interrupted("add_transaction", add_transaction_steps(Current, source, dest, amount))

FireTransactionsInterrupted(name) ==
    /\ started = "running"
    /\ Interrupted("fire_transactions", fire_transactions_steps(Current, name))

\* what an instance holds: its accounts (name, balance, keys), its pending intents
\* and the hashes of its chain in order
InMemory ==
    [accounts |-> {address_pool[i] : i \in DOMAIN address_pool},
     pool |-> balance_pool,
     hashes |-> [i \in DOMAIN blocks |-> blocks[i].hash]]

\* save_blockchain(): metadata, accounts, genesis, blocks, pending intents, in this order.
\* The except branches of test_save_blocks call it, and the test returns
SaveBlockchain ==
    /\ started \in {"running", "interrupted"}
    /\ LET m == Last(save_blockchain_steps(Current)) IN
       /\ Becomes(m)
       /\ persisted' = IF m.err = "ok" THEN <<InMemory>> ELSE <<>>
       /\ lastOp' = Result("save_blockchain", m.err)
    /\ started' = IF started = "interrupted" THEN "done" ELSE started
    /\ UNCHANGED <<restarts, grants, probe>>

\* the save_blockchain of an except branch (the one of KeyboardInterrupt, or the one of
\* ValueError on a running instance) that KeyboardInterrupt ends: it runs outside the try
\* block, so the process ends with what was written so far
SaveBlockchainInterrupted ==
    /\ started \in {"running", "interrupted"}
    /\ \E cut \in 1..(Len(save_blockchain_steps(Current)) - 1) :
          Becomes(save_blockchain_steps(Current)[cut])
    /\ started' = "done"
    /\ persisted' = <<>>
    /\ lastOp' = Result("save_blockchain", "KeyboardInterrupt")
    /\ UNCHANGED <<restarts, grants, probe>>

\* read_blockchain() on a fresh instance
ReadBlockchain ==
    /\ started = "fresh"
    /\ LET m == Last(read_blockchain_steps(Current)) IN
       /\ Becomes(m)
       /\ started' = IF m.err = "ok" THEN "running" ELSE "failed"
       /\ lastOp' = Result("read_blockchain", m.err)
    /\ persisted' = <<>>
    /\ UNCHANGED <<restarts, grants, probe>>

\* read_blockchain() that KeyboardInterrupt ends: test_read_blocks calls it outside its try
\* block, so the process ends
ReadBlockchainInterrupted ==
    /\ started = "fresh"
    /\ \E cut \in Cuts(read_blockchain_steps(Current)) :
          Becomes(read_blockchain_steps(Current)[cut])
    /\ started' = "done"
    /\ persisted' = <<>>
    /\ lastOp' = Result("read_blockchain", "KeyboardInterrupt")
    /\ UNCHANGED <<restarts, grants, probe>>

\* read_metadata(), the first call of test_signature on a fresh instance
ReadMetadata ==
    /\ started = "fresh"
    /\ LET m == Last(read_metadata_steps(Current)) IN
       /\ Becomes(m)
       /\ started' = IF m.err = "ok" THEN "reading" ELSE "failed"
       /\ lastOp' = Result("read_metadata", m.err)
    /\ persisted' = <<>>
    /\ UNCHANGED <<restarts, grants, probe>>

\* read_address_pool_data(), the second call of test_signature
ReadAddressPoolData ==
    /\ started = "reading"
    /\ lastOp.op = "read_metadata"
    /\ LET m == Last(read_address_pool_data_steps(Current)) IN
       /\ Becomes(m)
       /\ started' = IF m.err = "ok" THEN "reading" ELSE "failed"
       /\ lastOp' = Result("read_address_pool_data", m.err)
    /\ persisted' = <<>>
    /\ UNCHANGED <<restarts, grants, probe>>

\* read_genesis_data(), the third call of test_signature
ReadGenesisData ==
    /\ started = "reading"
    /\ lastOp.op = "read_address_pool_data"
    /\ LET m == Last(read_genesis_data_steps(Current)) IN
       /\ Becomes(m)
       /\ started' = IF m.err = "ok" THEN "reading" ELSE "failed"
       /\ lastOp' = Result("read_genesis_data", m.err)
    /\ persisted' = <<>>
    /\ UNCHANGED <<restarts, grants, probe>>

\* verify_transaction(name, block.transactions[0]) on the genesis block, the last call of
\* test_signature
VerifyGenesis(name) ==
    /\ started = "reading"
    /\ lastOp.op = "read_genesis_data"
    /\ started' = "done"
    /\ lastOp' = Result("verify_transaction",
                        verify_entry(address_pool, name, blocks[1].transactions[1]))
    /\ persisted' = <<>>
    /\ UNCHANGED <<blocks, address_pool, transaction_pool, balance_pool, height, count, index,
                   data_file, address_file, diskVars, clock, nkeys, restarts, addr_covered,
                   written, applied, grants, probe>>

\* the process ends; the next one starts with a fresh Blockchain().  A process that caught
\* KeyboardInterrupt ends after the save_blockchain of its except branch
Exit ==
    /\ started \notin {"fresh", "interrupted"}
    /\ started' = "fresh"
    /\ blocks' = <<>>
    /\ address_pool' = <<>>
    /\ transaction_pool' = <<>>
    /\ balance_pool' = <<>>
    /\ height' = 0
    /\ count' = 0
    /\ index' = 0
    /\ data_file' = NoFile
    /\ address_file' = "none"
    /\ restarts' = restarts + 1
    /\ applied' = <<>>
    /\ lastOp' = Result("Blockchain", "ok")
    /\ UNCHANGED <<diskVars, clock, nkeys, addr_covered, written, persisted, grants, probe>>

(***************************************************************************)
(* Spec: every handler, with any account names and amounts.                *)
(***************************************************************************)
Work == clock + Len(balance_pool) + restarts + grants

Next ==
    \/ Work < MaxWork /\ Initialize("A")
    \/ Work + 1 < MaxWork /\ InitializeInterrupted("A")
    \/ \E name \in Names : Work + 1 < MaxWork /\ CreateUserInterrupted(name)
    \/ \E t \in Transfers : Work + 1 < MaxWork /\ AddTransactionInterrupted(t[1], t[2], t[3])
    \/ \E name \in Names : Work + 1 < MaxWork /\ FireTransactionsInterrupted(name)
    \/ Work + 1 < MaxWork /\ Interrupt
    \/ Work + 1 < MaxWork /\ SaveBlockchainInterrupted
    \/ Work + 1 < MaxWork /\ ReadBlockchainInterrupted
    \/ Work < MaxWork /\ ReadMetadata
    \/ ReadAddressPoolData
    \/ ReadGenesisData
    \/ \E name \in Names : Work < MaxWork /\ VerifyGenesis(name)
    \/ \E name \in Names : Work < MaxWork /\ CreateUser(name)
    \/ Work < MaxWork /\ IncrementBalance("A", Grant)
    \/ \E t \in Transfers : Work < MaxWork /\ AddTransaction(t[1], t[2], t[3])
    \/ \E name \in Names : Work < MaxWork /\ FireTransactions(name)
    \/ Work < MaxWork /\ SaveBlockchain
    \/ ReadBlockchain
    \/ Work < MaxWork /\ Exit

Spec == Init /\ [][Next]_vars

(***************************************************************************)
(* SpecChain: the first process initializes the store, one account mines   *)
(* block after block with an empty pool while the segment handle is open,  *)
(* the store is saved, and a later process loads it and goes on.           *)
(***************************************************************************)
NextChain ==
    \/ clock < MaxChain /\ restarts = 0 /\ Initialize("A")
    \/ clock < MaxChain /\ data_file.state = "open" /\ FireTransactions("A")
    \/ SaveBlockchain
    \/ ReadBlockchain
    \/ restarts < MaxChainRestarts /\ Exit

SpecChain == Init /\ [][NextChain]_vars

(***************************************************************************)
(* SpecSegments: the run of test_save_blocks and test_read_blocks on a     *)
(* long chain.  One process initializes the store and mines until an       *)
(* eleventh segment file exists, saves the store and ends; the next        *)
(* process loads it or initializes the store again.                        *)
(***************************************************************************)
NextSegments ==
    \/ clock < MaxSegBlocks /\ Initialize("A")
    \/ clock < MaxSegBlocks /\ data_file.state = "open" /\ restarts = 0 /\ FireTransactions("A")
    \/ 10 \in DOMAIN f_data /\ data_file.state = "open" /\ SaveBlockchain
    \/ "transactions" \in files /\ restarts = 0 /\ Exit
    \/ ReadBlockchain

SpecSegments == Init /\ [][NextSegments]_vars

(***************************************************************************)
(* SpecWallet: a Wallet is constructed, and verify_address, serialize and  *)
(* deserialize, or sign_transaction and verify_transaction (on the text as *)
(* signed, or with one character of the payload or of the signature        *)
(* changed), are applied to it.                                            *)
(***************************************************************************)
NewWallet(name, balance, key) ==
    /\ probe' = [NoProbe EXCEPT !.op = "Wallet", !.wallet = <<Wallet(name, balance, key)>>]
    /\ UNCHANGED ledgerVars

VerifyAddress ==
    /\ probe.op = "Wallet"
    /\ probe' = [probe EXCEPT !.op = "verify_address", !.res = verify_address(probe.wallet[1])]
    /\ UNCHANGED ledgerVars

Serialize ==
    /\ probe.op = "Wallet"
    /\ probe' = [probe EXCEPT !.op = "serialize", !.data = <<serialize(probe.wallet[1])>>]
    /\ UNCHANGED ledgerVars

Deserialize(key) ==
    /\ probe.op = "serialize"
    /\ probe' = [probe EXCEPT !.op = "deserialize", !.copy = <<deserialize(probe.data[1], key)>>]
    /\ UNCHANGED ledgerVars

SignTransaction(tx_data) ==
    /\ probe.op = "Wallet"
    /\ probe' = [probe EXCEPT !.op = "sign_transaction", !.msg = tx_data,
                              !.text = sign_text(probe.wallet[1].sk, tx_data)]
    /\ UNCHANGED ledgerVars

\* one character of the payload or of the signature is replaced by another
Alter(i, c) ==
    /\ probe.op = "sign_transaction"
    /\ i \in DOMAIN probe.text /\ i # Len(probe.msg) + 1
    /\ c # probe.text[i]
    /\ probe' = [probe EXCEPT !.op = "altered", !.text = [probe.text EXCEPT ![i] = c]]
    /\ UNCHANGED ledgerVars

VerifyTransaction ==
    /\ probe.op \in {"sign_transaction", "altered"}
    /\ probe' = [probe EXCEPT
                    !.op = IF probe.op = "altered" THEN "verify_altered" ELSE "verify_transaction",
                    !.res = verify_transaction(probe.wallet[1].vk, probe.text)]
    /\ UNCHANGED ledgerVars

NextWallet ==
    \/ \E name \in Names, balance \in Balances, key \in KeyIds : NewWallet(name, balance, key)
    \/ VerifyAddress
    \/ Serialize
    \/ \E key \in KeyIds : Deserialize(key)
    \/ \E tx_data \in Texts(MaxPayload) : SignTransaction(tx_data)
    \/ \E i \in 1..(3 * MaxPayload + 2), c \in Chars \cup {"P", "Z", "1", "2"} : Alter(i, c)
    \/ VerifyTransaction

SpecWallet == Init /\ [][NextWallet]_vars

(***************************************************************************)
(* The claims.                                                             *)
(***************************************************************************)

\* C1: whenever no fire_transactions call is executing, after a call that failed and
\* after read_blockchain included, transaction_pool and balance_pool have the same length
\* (stated for the instances no KeyboardInterrupt has stopped).
C1_PoolsSameLength == started = "running" => Len(transaction_pool) = Len(balance_pool)

\* C2: add_transaction(source, dest, amount) with source's balance below amount fails with
\* the insufficient-balance error and leaves both pools and every balance unchanged.
C2_InsufficientBalanceRejected ==
    [][\A t \in Transfers :
          (/\ started = "running"
           /\ HasName(address_pool, t[1])
           /\ BalanceOf(address_pool, t[1]) < t[3]
           /\ AddTransaction(t[1], t[2], t[3]))
          => (/\ lastOp' = Result("add_transaction", "ValueError:balance")
              /\ transaction_pool' = transaction_pool
              /\ balance_pool' = balance_pool
              /\ address_pool' = address_pool)]_vars

C2_Witness ==
    /\ lastOp = Result("add_transaction", "ValueError:balance")
    /\ address_pool # <<>>

\* C3: add_transaction(source, dest, amount) fails with the insufficient-balance error, and
\* the pools keep their length, when amount exceeds source's balance minus the amounts
\* source already has pending.
C3_PendingCounted ==
    [][\A t \in Transfers :
          (/\ started = "running"
           /\ HasName(address_pool, t[1])
           /\ t[3] > BalanceOf(address_pool, t[1]) - PendingFrom(balance_pool, t[1])
           /\ AddTransaction(t[1], t[2], t[3]))
          => (/\ lastOp' = Result("add_transaction", "ValueError:balance")
              /\ Len(balance_pool') = Len(balance_pool)
              /\ Len(transaction_pool') = Len(transaction_pool))]_vars

\* C4: a fire_transactions call that completes leaves the sum of all balances at the sum
\* before the call plus subsidy.
C4_SettleAddsSubsidy ==
    [][(/\ lastOp' = Result("fire_transactions", "ok")
        /\ \E name \in Names : FireTransactions(name))
       => SumBalances(address_pool') = SumBalances(address_pool) + subsidy]_vars

C4_Witness ==
    /\ lastOp = Result("fire_transactions", "ok")
    /\ \E i \in DOMAIN Last(blocks).transactions : Last(blocks).transactions[i].kind = "tx"
    /\ \E i \in DOMAIN address_pool :
          address_pool[i].balance \notin {0, InitialBalance, InitialBalance + subsidy}

\* C5: every account's balance is >= 0 in every reachable state.
C5_BalancesNonNegative == \A i \in DOMAIN address_pool : address_pool[i].balance >= 0

\* C6: every block at position N > 0 of the chain has prev_hash equal to the hash of the
\* block at position N - 1, also after read_blockchain rebuilt the chain from the store.
C6_ChainLinked == \A i \in 2..Len(blocks) : blocks[i].prev_hash = blocks[i - 1].hash

\* C7: when read_blockchain runs on a fresh instance over a store that save_blockchain
\* wrote last, it succeeds and the instance holds the same accounts with the same balances
\* and keys, the same pending intents and a chain of the same hashes in the same order as
\* the instance that saved.
C7_RoundTrip ==
    [][(persisted # <<>> /\ ReadBlockchain)
          => (/\ lastOp' = Result("read_blockchain", "ok")
              /\ InMemory' = persisted[1])]_vars

\* C8: a fire_transactions call that finds an intent whose source balance is below its
\* amount fails with the error, and the block sealed in the call is the last block of the
\* chain and the last line of the open segment file.
C8_SealedBlockStays ==
    [][\A name \in Names :
          (/\ started = "running"
           /\ FireTransactions(name))
          => /\ (/\ new_coinbase_tx_account(address_pool, transaction_pool, blocks, Store,
                                            name, clock).err = "ok"
                 /\ balance_pool # <<>>
                 /\ HasName(address_pool, balance_pool[1].source)
                 /\ BalanceOf(increment_balance(address_pool, name, subsidy),
                              balance_pool[1].source) < balance_pool[1].amount)
                => lastOp' = Result("fire_transactions", "ValueError:balance")
             /\ lastOp' = Result("fire_transactions", "ValueError:balance")
                => /\ Len(blocks') = Len(blocks) + 1
                   /\ SubSeq(blocks', 1, Len(blocks)) = blocks
                   /\ Last(blocks').hash \notin Hashes(blocks)
                   /\ Last(blocks').prev_hash = Last(blocks).hash
                   /\ data_file'.state = "open"
                   /\ f_data'[data_file'.idx] # <<>>
                   /\ Last(f_data'[data_file'.idx]) = Last(blocks')]_vars

C8_Witness ==
    /\ lastOp = Result("fire_transactions", "ValueError:balance")
    /\ Len(blocks) >= 2

\* one execution of move_balance changed both balances or neither
MoveIsAtomic(m) ==
    \/ m.after = m.before
    \/ /\ HasName(m.before, m.intent.dest)
       /\ m.after = increment_balance(
                        decrement_balance(m.before, m.intent.source, m.intent.amount),
                        m.intent.dest, m.intent.amount)

\* C9: every execution of move_balance inside fire_transactions changes both balances or
\* neither.
C9_MoveAtomic ==
    [][\A name \in Names :
          (/\ started = "running"
           /\ FireTransactions(name))
          => \A i \in DOMAIN fire_transactions(name).moves :
                MoveIsAtomic(fire_transactions(name).moves[i])]_vars

\* the blocks after the genesis block that are written to the segment files
SegmentBlocks == UNION {Hashes(f_data[i]) : i \in DOMAIN f_data} \ Hashes(f_genesis)

\* C10: the blocks written to the segment files exceed the blocks whose balance effects are
\* written to the address file by at most one.
C10_AtMostOneUnsettledBlock == Cardinality(SegmentBlocks \ addr_covered) <= 1

\* C11: on a store that was empty when the process started and that only initialize and
\* fire_transactions have written (save_blockchain never rewrote it), once save_block_data
\* has been called threshold + 1 times exactly the segment files data-0 and data-1 exist,
\* data-0 with threshold lines and data-1 with one.
C11_TwoSegments ==
    (started = "running" /\ restarts = 0 /\ "transactions" \notin files
        /\ count = threshold + 1)
        => (/\ DOMAIN f_data = {0, 1}
            /\ Len(f_data[0]) = threshold
            /\ Len(f_data[1]) = 1)

C11_Witness ==
    /\ started = "running" /\ restarts = 0 /\ "transactions" \notin files
    /\ count = threshold + 1
    /\ lastOp = Result("fire_transactions", "ok")
    /\ 1 \in DOMAIN f_data

\* the segment indices in ascending numeric order
RECURSIVE NumericOrder(_)
NumericOrder(S) ==
    IF S = {} THEN <<>>
    ELSE LET first == CHOOSE i \in S : \A j \in S : i <= j
         IN  <<first>> \o NumericOrder(S \ {first})

\* C12: a read_blockchain that completes leaves the chain as the genesis block followed by
\* the lines of the segment files taken in ascending numeric order of their index (data-2
\* before data-10), also when the store holds more than ten segment files.
C12_SegmentsInNumericOrder ==
    [][(ReadBlockchain /\ lastOp' = Result("read_blockchain", "ok"))
          => blocks' = f_genesis' \o ConcatSegs(f_data', NumericOrder(DOMAIN f_data'))]_vars

IsPrefix(s, t) == Len(s) <= Len(t) /\ SubSeq(t, 1, Len(s)) = s

\* C13: while an instance lives and its calls run to their own end (they return, or raise
\* from one of their statements; no KeyboardInterrupt cuts them short), a fire_transactions
\* call that completes leaves both transaction_pool and balance_pool empty, and every other
\* call (add_transaction, a failed call, any other handler) keeps every entry of both pools
\* in place and in order.
C13_PoolsClearedOnlyBySettlement ==
    [][(restarts' = restarts /\ lastOp'.res # "KeyboardInterrupt")
          => IF /\ lastOp' = Result("fire_transactions", "ok")
                /\ \E name \in Names : FireTransactions(name)
             THEN transaction_pool' = <<>> /\ balance_pool' = <<>>
             ELSE /\ IsPrefix(transaction_pool, transaction_pool')
                  /\ IsPrefix(balance_pool, balance_pool')]_vars

\* a completed fire_transactions has sealed a block with a transfer and its reward, and
\* both pools are empty
C13_Witness ==
    /\ lastOp = Result("fire_transactions", "ok")
    /\ transaction_pool = <<>> /\ balance_pool = <<>>
    /\ Len(Last(blocks).transactions) >= 2

\* a call whose result is r returned normally (it raised nothing)
ReturnedNormally(r) == r.res \in {"ok", "exists"}

\* C14: create_user(name) for a name that is already in address_pool raises an error to its
\* caller and leaves the account's balance and keys and the address file as they were.
C14_DuplicateRejected ==
    [][\A name \in Names :
          (started = "running" /\ HasName(address_pool, name) /\ CreateUser(name))
              => (/\ ~ReturnedNormally(lastOp')
                  /\ address_pool' = address_pool
                  /\ f_address' = f_address)]_vars

HasRecord(lines, name) == \E i \in DOMAIN lines : lines[i].name = name

\* C15: create_user(name) for a new name, in any state of a running instance (also after a
\* fire_transactions that completed and rewrote the address file), returns without error
\* and leaves a record for name in the address file; and every account of the in-memory
\* pool has its record in the address file.
C15_NewAccountRecorded ==
    [][\A name \in Names :
          (started = "running" /\ ~HasName(address_pool, name) /\ CreateUser(name))
              => (/\ lastOp' = Result("create_user", "ok")
                  /\ HasRecord(f_address', name)
                  /\ \A i \in DOMAIN address_pool' :
                        HasRecord(f_address', address_pool'[i].name))]_vars

\* C16: every intent in balance_pool has amount > 0 (add_transaction rejects amount <= 0
\* and leaves both pools as they were).
C16_AmountsPositive == \A i \in DOMAIN balance_pool : balance_pool[i].amount > 0

\* C17: after every save_block_data call that completes (the one of initialize and the one
\* of each fire_transactions whose write succeeds), the metadata file's height is the length
\* of the in-memory chain, its count is the number of block lines save_block_data has
\* written to segment files, and its index is the segment file that received the block.
C17_MetadataFollowsWrites ==
    [][(\/ Initialize("A") /\ lastOp' = Result("initialize", "ok")
        \/ \E name \in Names : /\ started = "running"
                                /\ fire_transactions(name).store.err = "ok"
                                /\ FireTransactions(name))
          => LET m == f_metadata'[1] IN
             /\ m.height = Len(blocks')
             /\ m.count = written'
             /\ m.index = data_file'.idx
             /\ f_data'[m.index] # <<>>
             /\ Last(f_data'[m.index]) = Last(blocks')]_vars

\* C18: after every add_transaction and every fire_transactions that completes, the
\* transactions file exists and holds exactly the intents of balance_pool, in order.
C18_TransactionsFileFollowsPool ==
    [][(\/ /\ lastOp' = Result("add_transaction", "ok")
           /\ \E t \in Transfers : AddTransaction(t[1], t[2], t[3])
        \/ /\ lastOp' = Result("fire_transactions", "ok")
           /\ \E name \in Names : FireTransactions(name))
          => (/\ "transactions" \in files'
              /\ ReadBalancePool(f_transactions') = balance_pool')]_vars

\* C19: read_blockchain on a store without a metadata file returns normally and leaves the
\* instance with no account, empty pools and an empty chain.
C19_NoMetadataLoadsNothing ==
    [][("metadata" \notin files /\ ReadBlockchain)
          => (/\ lastOp'.op = "read_blockchain"
              /\ ReturnedNormally(lastOp')
              /\ address_pool' = <<>>
              /\ transaction_pool' = <<>> /\ balance_pool' = <<>>
              /\ blocks' = <<>>)]_vars

\* C20: when read_blockchain has completed, the loaded chain is no longer than the height
\* recorded in the metadata file.
C20_LoadedChainWithinHeight ==
    lastOp = Result("read_blockchain", "ok") => Len(blocks) <= f_metadata[1].height

\* the sum of the amounts of the intents that name dest as destination
RECURSIVE PendingTo(_, _)
PendingTo(intents, dest) ==
    IF intents = <<>> THEN 0
    ELSE (IF Head(intents).dest = dest THEN Head(intents).amount ELSE 0)
         + PendingTo(Tail(intents), dest)

\* C21: after a fire_transactions(miner) that completes, every account's balance is its
\* balance before the call, plus subsidy if it is the miner, plus the amounts of the pooled
\* intents that name it as destination, minus the amounts of those that name it as source.
C21_SettlementBalances ==
    [][\A miner \in Names :
          (/\ started = "running"
           /\ FireTransactions(miner)
           /\ lastOp' = Result("fire_transactions", "ok"))
              => (/\ Len(address_pool') = Len(address_pool)
                  /\ \A i \in DOMAIN address_pool :
                        /\ address_pool'[i].name = address_pool[i].name
                        /\ address_pool'[i].balance =
                              address_pool[i].balance
                              + (IF address_pool[i].name = miner THEN subsidy ELSE 0)
                              + PendingTo(balance_pool, address_pool[i].name)
                              - PendingFrom(balance_pool, address_pool[i].name))]_vars

\* A had 100 and one pending A -> B 30; A mined: B has 30 and A has 100 + subsidy - 30
C21_Witness ==
    /\ lastOp = Result("fire_transactions", "ok")
    /\ Len(Last(blocks).transactions) = 2
    /\ Last(blocks).transactions[1].kind = "tx"
    /\ Last(blocks).transactions[1].amount = 30
    /\ Last(blocks).transactions[2].source = "A"
    /\ HasName(address_pool, "B") /\ BalanceOf(address_pool, "B") = 30
    /\ BalanceOf(address_pool, "A") = 100 + subsidy - 30

\* C22: verify_address returns true for a wallet that was just constructed.
C22_FreshAddressVerifies == probe.op = "verify_address" => probe.res = "True"

\* C23: verify_transaction accepts the text sign_transaction made of any payload, a payload
\* with the '|' character included, and fails on the text with one character of the payload
\* or of the signature changed.
C23_SignVerify ==
    /\ probe.op = "verify_transaction" => probe.res = "ok"
    /\ probe.op = "verify_altered" => probe.res # "ok"

\* C24: deserialize(serialize(w)) has the name, balance, signing key, verifying key and
\* address of w.
C24_WalletRoundTrip == probe.op = "deserialize" => probe.copy = probe.wallet

\* the copy was constructed with another key pair than the wallet's
C24_Witness ==
    /\ probe.op = "deserialize"
    /\ probe.wallet[1].sk = 1 /\ probe.wallet[1].balance = 50
    /\ deserialize(probe.data[1], 2) = probe.copy[1]
    /\ Wallet(probe.wallet[1].name, 50, 2) # probe.copy[1]

IsGenesis(block) == block.prev_hash = ZeroHash /\ block.transactions[1].kind = "genesis"

\* C25: in every state of a running instance, after read_blockchain included, the chain
\* has exactly one genesis block and it is the first block; and the genesis file, once it
\* holds a block, keeps it.
C25_OneGenesisWrittenOnce ==
    [][/\ started' = "running"
          => (/\ blocks' # <<>>
              /\ \A i \in DOMAIN blocks' : IsGenesis(blocks'[i]) <=> i = 1)
       /\ f_genesis # <<>> => f_genesis' = f_genesis]_vars

\* C26: every entry of transaction_pool carries a signature, in every state and also after
\* read_transaction_data has put the stored intents back in the pool, and so does every
\* transaction of every block.
C26_PoolEntriesSigned ==
    /\ \A i \in DOMAIN transaction_pool : transaction_pool[i].sig # NoSig
    /\ \A b \in DOMAIN blocks : \A i \in DOMAIN blocks[b].transactions :
          blocks[b].transactions[i].sig # NoSig

\* C27: add_transaction(source, dest, amount) of an existing source is accepted exactly
\* when amount is within source's balance; what source already has pending in the pool
\* plays no part.  An accepted call appends the intent to both pools, a rejected one fails
\* with the insufficient-balance error and leaves them alone.
C27_BalanceAloneDecides ==
    [][\A t \in Transfers :
          (/\ started = "running"
           /\ HasName(address_pool, t[1])
           /\ AddTransaction(t[1], t[2], t[3]))
          => IF BalanceOf(address_pool, t[1]) >= t[3]
             THEN /\ lastOp' = Result("add_transaction", "ok")
                  /\ balance_pool' = Append(balance_pool, Intent(t[1], t[2], t[3]))
                  /\ Len(transaction_pool') = Len(transaction_pool) + 1
             ELSE /\ lastOp' = Result("add_transaction", "ValueError:balance")
                  /\ UNCHANGED <<transaction_pool, balance_pool>>]_vars

\* an accepted call has left a pool whose intents from one source total more than its balance
C27_Witness ==
    /\ lastOp = Result("add_transaction", "ok")
    /\ \E i \in DOMAIN address_pool :
          /\ address_pool[i].balance > 0
          /\ PendingFrom(balance_pool, address_pool[i].name) > address_pool[i].balance

\* C28: no fire_transactions changes balances by an intent that an earlier
\* fire_transactions has already changed them by: each intent that add_transaction queued
\* is applied to the balances at most once, also when a fire_transactions failed part-way
\* through balance_pool and another one follows.
C28_AppliedAtMostOnce ==
    [][\A name \in Names :
          (/\ started = "running"
           /\ FireTransactions(name))
          => \A i \in DOMAIN fire_transactions(name).moves :
                fire_transactions(name).moves[i].after # fire_transactions(name).moves[i].before
                    => applied[i] = 0]_vars

\* the transactions of a block that are rewards
Rewards(block) == {i \in DOMAIN block.transactions : block.transactions[i].kind = "reward"}

\* C29: every block that fire_transactions appended holds exactly one reward transaction,
\* also when an earlier fire_transactions failed after its block was sealed and left the
\* pool as it was.
C29_OneRewardPerBlock ==
    [][\A name \in Names :
          (/\ started = "running"
           /\ FireTransactions(name)
           /\ Len(blocks') = Len(blocks) + 1)
          => Cardinality(Rewards(Last(blocks'))) = 1]_vars

\* C30: save_block_data is never called on a closed segment handle: a fire_transactions by
\* an existing account, also one that follows save_blockchain, gets its block written to a
\* segment file.
C30_SegmentHandleOpen ==
    [][\A name \in Names :
          (/\ started = "running"
           /\ HasName(address_pool, name)
           /\ FireTransactions(name))
          => (/\ fire_transactions(name).store.err = "ok"
              /\ \E i \in DOMAIN f_data' : Last(blocks').hash \in Hashes(f_data'[i]))]_vars

\* C31: on a store that initialize created (it has written the genesis file, its last
\* statement) and that only create_user, add_transaction and fire_transactions have written
\* since (save_blockchain never ran on it: there is no transactions file), read_blockchain
\* finds every file it opens and completes without a missing-file error.
C31_LoadWithoutSave ==
    [][(/\ "metadata" \in files
        /\ f_genesis # <<>>
        /\ "transactions" \notin files
        /\ ReadBlockchain)
          => lastOp' = Result("read_blockchain", "ok")]_vars

====
